---------------------------- MODULE Spec2Model ----------------------------
(***************************************************************************)
(* Report-card generation pipeline of SchoolReportGenerator.               *)
(*                                                                         *)
(*   ReportGenerator.generate      portable-app/app/services/              *)
(*                                 report_generator.py                     *)
(*   PDFConverter.convert,                                                 *)
(*   PDFConverter.convert_batch_single_call,                               *)
(*   PDFConverter.is_available     portable-app/app/services/              *)
(*                                 pdf_converter.py                        *)
(*   ReportGenerator.validate_inputs                                       *)
(*   DataProcessor.process_student_data,                                   *)
(*   ReportCardGenerator (end-of-data test)   ReportGenV2.py               *)
(*   column_letter_to_index        ColumnMapper.resolve of the             *)
(*                                 specification, section 4.1              *)
(*   sanitize_filename             sanitizeFilename of the                 *)
(*                                 specification, section 4.6              *)
(*                                                                         *)
(* generate is modelled statement group by statement group: pc is the      *)
(* position of the run inside generate, exc the exception in flight.       *)
(* The file system is the pair (temp_dir, tempFiles) for the directory     *)
(* made by mkdtemp and outputFiles for the PDFs of the output directory.   *)
(* Everything the environment decides (what validate returns, whether      *)
(* LibreOffice is installed, which PDFs the external process writes, its   *)
(* exit code, whether it times out, whether a callback raises) is drawn    *)
(* with \E at the step where the code meets it.                            *)
(*                                                                         *)
(* Spec is one generate run, or one call of convert, validate_inputs,      *)
(* process_student_data, column_letter_to_index, sanitize_filename or      *)
(* convert_batch_single_call on its own (op says which).  FairSpec is Spec *)
(* with the fairness a sequential run has.                                 *)
(* PairSpec is two generate runs interleaved over one file system.         *)
(***************************************************************************)
EXTENDS Integers, Sequences, FiniteSets, TLC

VARIABLES
    op,                 \* the operation under way: "generate", "convert", or
                        \* the name of the function called on its own
    pc,                 \* position inside generate
    exc,                \* exception in flight inside generate ("none" if none)
    results,            \* the dict generate builds and returns
    validation_errors,  \* what data_processor.validate() returned
    temp_dir,           \* "none", "exists" or "removed"
    tempFiles,          \* stems of the .docx files in temp_dir
    outputFiles,        \* stems of the .pdf files in the output directory
    student_rows,       \* list(data_processor.get_student_rows())
    i,                  \* number of rows the fill loop has gone through
    docx_files,         \* paths of the filled documents, in append order
    has_callback,       \* progress_callback is not None
    progress,           \* arguments of every progress_callback invocation
    extracted,          \* number of process_student_data calls made
    fillAttempts,       \* per fill_template call: <<row index, succeeded>>
    convInvocations,    \* subprocess.run calls made with --convert-to
    versionQueries,     \* subprocess.run calls made with --version
    libreoffice,        \* what the run has met: "unknown", "missing" (no
                        \* executable), "broken" (version query failed), "ok"
    existChecks,        \* expected_pdf.exists() calls made
    procOutcome,        \* how the batched subprocess.run ended
    exitCode,           \* returncode of the batched external process
    batch_results,      \* what convert_batch_single_call returned
    elapsed,            \* how long the batched external process has been
                        \* running, in units of timeout_seconds
    produced,           \* the PDFs the external process of this call wrote
    cv,                 \* the stand-alone PDFConverter.convert call
    call,               \* the stand-alone call of a function: its name,
                        \* and once done its arguments and what it returned
    pair                \* two generate runs of one process: the state of
                        \* each, the file system they share, and for each
                        \* run its state and files had it run alone

vars == <<op, pc, exc, results, validation_errors, temp_dir, tempFiles,
          outputFiles, student_rows, i, docx_files, has_callback, progress,
          extracted, fillAttempts, convInvocations, versionQueries,
          libreoffice, existChecks, procOutcome, exitCode, batch_results, elapsed, produced, cv, call, pair>>

----------------------------------------------------------------------------
(* Bounds *)

MaxStudents == 3

\* the longest wait for the external process the model follows
MaxWait == MaxStudents + 1

\* the number of rows of each of two concurrent runs
MaxPairStudents == 2


----------------------------------------------------------------------------
(* Strings are sequences of one-character strings; a file name ends in one  *)
(* extension token (".docx", ".pdf").                                       *)

Reserved == {"/", "\\", ":", "*", "?", "\"", "<", ">", "|"}

UpperLetters ==
    << "A", "B", "C", "D", "E", "F", "G", "H", "I", "J", "K", "L", "M",
       "N", "O", "P", "Q", "R", "S", "T", "U", "V", "W", "X", "Y", "Z" >>

LowerLetters ==
    << "a", "b", "c", "d", "e", "f", "g", "h", "i", "j", "k", "l", "m",
       "n", "o", "p", "q", "r", "s", "t", "u", "v", "w", "x", "y", "z" >>

LowerSet == {LowerLetters[k] : k \in 1..26}

ToUpper == [c \in LowerSet |-> UpperLetters[CHOOSE k \in 1..26 : LowerLetters[k] = c]]

\* str.upper() on one character
Upper(c) == IF c \in LowerSet THEN ToUpper[c] ELSE c

UpperSet == {UpperLetters[k] : k \in 1..26}

ToLower == [c \in UpperSet |-> LowerLetters[CHOOSE k \in 1..26 : UpperLetters[k] = c]]

\* str.lower() on one character
Lower(c) == IF c \in UpperSet THEN ToLower[c] ELSE c

RECURSIVE MapChars(_, _)
MapChars(s, kind) ==
    IF s = <<>> THEN <<>>
    ELSE LET c == Head(s)
             d == CASE kind = "upper"      -> <<Upper(c)>>
                    [] kind = "lower"      -> <<Lower(c)>>
                    [] kind = "nospace"    -> IF c = " " THEN <<>> ELSE <<c>>
                    [] kind = "underscore" -> IF c = "_" THEN <<" ">> ELSE <<c>>
                    [] kind = "reserved"   -> IF c \in Reserved THEN <<"_">> ELSE <<c>>
         IN  d \o MapChars(Tail(s), kind)

RECURSIVE LStrip(_)
LStrip(s) == IF s # <<>> /\ Head(s) = " " THEN LStrip(Tail(s)) ELSE s

RECURSIVE RStrip(_, _)
RStrip(s, c) ==
    IF s # <<>> /\ s[Len(s)] = c THEN RStrip(SubSeq(s, 1, Len(s) - 1), c) ELSE s

Unnamed == <<"u", "n", "n", "a", "m", "e", "d">>

\* a sanitizer without the fallback for an empty result
sanitize_filename_NoFallback(name) ==
    RStrip(RStrip(LStrip(MapChars(name, "reserved")), " "), ".")

\* sanitize_filename with the two trims in the other order: trailing dots
\* first, then the surrounding whitespace
sanitize_filename_DotsFirst(name) ==
    LET replaced == MapChars(name, "reserved")
        trimmed  == RStrip(LStrip(RStrip(replaced, ".")), " ")
    IN  IF trimmed = <<>> THEN Unnamed ELSE trimmed

\* sanitize_filename: reserved characters become "_", surrounding whitespace
\* and trailing dots are trimmed, an empty result becomes "unnamed".
sanitize_filename(name) ==
    LET replaced == MapChars(name, "reserved")
        trimmed  == RStrip(RStrip(LStrip(replaced), " "), ".")
    IN  IF trimmed = <<>> THEN Unnamed ELSE trimmed

\* temp_dir / f"{safe_name}.docx"
DocxPath(safe_name) == [dir |-> "temp", name |-> safe_name \o <<".docx">>]

\* Path(p).stem: the final component without its suffix
Stem(path) == SubSeq(path.name, 1, Len(path.name) - 1)

\* (Path(docx_path).stem + ".pdf"), the name looked up in the output directory
ExpectedPdf(path) == Stem(path) \o <<".pdf">>

----------------------------------------------------------------------------
(* Input domains *)

NullPlaceholder == <<"-", "-", "-">>

\* A cell of the data frame is a Python value: a str, a float, the float nan
\* pandas puts where the sheet has nothing, or no cell at all when the mapped
\* column lies outside the frame.  s is str(value).
StrCell(s) == [kind |-> "str", s |-> s]

FloatCell(s) == [kind |-> "float", s |-> s]

NaNCell == [kind |-> "nan", s |-> <<"n", "a", "n">>]

AbsentCell == [kind |-> "absent", s |-> <<>>]

Str(value) == value.s

StudentNames == { <<"A">>, <<"A", ":">>, <<"A", "/">>, <<"n", "a">> }

\* the cell under the "percentage" column: a number, or text float() rejects
PercentCells == { FloatCell(<<"8", "7", ".", "5">>), StrCell(<<"a", "b", "c">>) }

\* the texts of the model float() parses to a finite number
NumericTexts == { <<"8", "7", ".", "5">>, <<"9", "0">> }

\* float(cell) returns (a number or nan) rather than raising ValueError
IsNumeric(cell) ==
    \/ cell.kind \in {"float", "nan"}
    \/ cell.kind = "str" /\ cell.s \in NumericTexts

\* f"{float(cell):.2f}%"
FormatPercentage(cell) ==
    StrCell(CASE cell.s = <<"8", "7", ".", "5">> -> <<"8", "7", ".", "5", "0", "%">>
              [] cell.s = <<"9", "0">>           -> <<"9", "0", ".", "0", "0", "%">>
              [] cell.kind = "nan"               -> <<"n", "a", "n", "%">>)

\* a row of the frame seen through column_map: mapping key |-> row[column_map[key]]
Rows == [name : {StrCell(n) : n \in StudentNames}, percentage : PercentCells]

RowLists == UNION { [1..n -> Rows] : n \in 0..MaxStudents }

class_name == <<"5", "_", "A">>

\* the functions called on their own, outside a generate run
CalledFunctions ==
    {"process_student_data", "validate_inputs", "column_letter_to_index",
     "sanitize_filename", "convert_batch_single_call"}

\* the characters of the names handed to sanitize_filename: a letter,
\* whitespace, a dot and two of the reserved characters
NameChars == {"a", " ", ".", ":", "/"}

MaxNameLen == 3

\* every name of up to MaxNameLen such characters, and the fallback literal
NameInputs ==
    UNION { [1..n -> NameChars] : n \in 0..MaxNameLen } \cup {Unnamed}

Letters == UpperSet \cup LowerSet

\* the column letter strings of length 1 or 2, in any letter case
LetterStrings ==
    { <<a>> : a \in Letters } \cup { <<a, b>> : a \in Letters, b \in Letters }

\* Path(...).suffix of the three paths handed to validate_inputs
ExcelSuffixes == { <<".", "x", "l", "s", "x">>, <<".", "X", "L", "S">>, <<".", "c", "s", "v">> }

TemplateSuffixes == { <<".", "d", "o", "c", "x">>, <<".", "D", "o", "c", "x">>, <<".", "d", "o", "c">> }

MappingSuffixes == { <<".", "j", "s", "o", "n">>, <<".", "t", "x", "t">> }

\* what the mapping file holds: a non-empty JSON object, the object {}, some
\* other JSON value, text that is not JSON, bytes that are not text in the
\* encoding open() uses
MappingContents == {"object", "empty_object", "not_object", "malformed", "undecodable"}

ExcelFiles == [exists : BOOLEAN, suffix : ExcelSuffixes]

TemplateFiles == [exists : BOOLEAN, suffix : TemplateSuffixes]

MappingFiles ==
    { f \in [exists : BOOLEAN, suffix : MappingSuffixes, content : MappingContents] :
         ~f.exists => f.content = "object" }

\* the cells a row can hold under a mapped column
ExtractCells ==
    { StrCell(<<"A">>), StrCell(<<"n", "a">>), FloatCell(<<"8", "7", ".", "5">>),
      NaNCell, AbsentCell }

\* the key sets of column_map
MappingKeySets ==
    { {"name", "score"}, {"name", "percentage", "remark"}, {"name", "class"} }

ClassNames == { <<"5", "_", "A">>, <<"N", "_", "A">> }

\* PDFs left in the output directory by an earlier run into the same directory
StaleOutputs == { {}, { <<"A", ".pdf">> } }

\* what data_processor.validate() can return
ValidationOutcomes ==
    { <<>>,
      << [msg |-> "Column not found", who |-> <<"name">>] >>,
      << [msg |-> "Column not found", who |-> <<"name">>],
         [msg |-> "Mapping is empty", who |-> <<>>] >> }

\* the documents handed to the stand-alone convert
ConvertInputs == { DocxPath(<<"A">>), DocxPath(<<"A", "_">>) }

ExitCodes == {0, 1}

None == [none |-> TRUE]

Entry(m, w) == [msg |-> m, who |-> w]


----------------------------------------------------------------------------
(* DataProcessor.process_student_data *)

nan_values == { <<"N", "A", "N">>, <<"N", "O", "N", "E">>, <<"N", "A">> }

\* value if str(value).upper().replace(" ", "") not in nan_values else "---"
NullNormalize(value) ==
    IF MapChars(MapChars(Str(value), "upper"), "nospace") \in nan_values
    THEN StrCell(NullPlaceholder)
    ELSE value

\* lines 77-83 raise for this key: the column is not in the frame (KeyError),
\* float() rejects the percentage cell (ValueError), or the remark cell is
\* not a str and cannot be concatenated with "!" (TypeError)
TransformRaises(key, cell) ==
    \/ cell.kind = "absent"
    \/ key = "percentage" /\ ~IsNumeric(cell)
    \/ key = "remark" /\ cell.kind # "str"

\* lines 78-83: the value stored under key before null handling
Transform(key, cell) ==
    CASE key = "percentage" -> FormatPercentage(cell)
      [] key = "remark"     -> StrCell(cell.s \o <<"!">>)
      [] OTHER              -> cell

\* an extraction that takes the class from the row when the mapping has the key
process_student_data_ClassFromRow(row, cls) ==
    IF \E key \in DOMAIN row : TransformRaises(key, row[key])
    THEN None
    ELSE [key \in DOMAIN row \cup {"class"} |->
             NullNormalize(IF key \in DOMAIN row
                           THEN Transform(key, row[key])
                           ELSE StrCell(MapChars(cls, "underscore")))]

\* The field dictionary of one row, or None.  row maps every key of column_map
\* to the cell row[column_map[key]]; a "class" key is skipped by the loop and
\* line 85 stores the class name.  Any exception of lines 77-83 is caught by
\* the method's handler, which returns None.
process_student_data(row, cls) ==
    IF \E key \in DOMAIN row \ {"class"} : TransformRaises(key, row[key])
    THEN None
    ELSE [key \in DOMAIN row \cup {"class"} |->
             NullNormalize(IF key = "class"
                           THEN StrCell(MapChars(cls, "underscore"))
                           ELSE Transform(key, row[key]))]

\* report_generator.py 127: self.data_processor.process_student_data(row), for
\* each row the frame of a run can hold, under the class name the DataProcessor
\* was constructed with.  (f @@ <<>> is f, tabulated once.)
ExtractedRows == [row \in Rows |-> process_student_data(row, class_name)] @@ <<>>

----------------------------------------------------------------------------
(* column_letter_to_index (ColumnMapper.resolve for a column letter) *)

\* A = 0 .. Z = 25
letter_value == [c \in UpperSet |-> (CHOOSE k \in 1..26 : UpperLetters[k] = c) - 1]

RECURSIVE Power26(_)
Power26(n) == IF n = 0 THEN 1 ELSE 26 * Power26(n - 1)

\* sum over i of (letter_value(c_i) + 1) * 26^(n-1-i), c_0 the first letter
RECURSIVE DigitSum(_)
DigitSum(letters) ==
    IF letters = <<>> THEN 0
    ELSE (letter_value[Head(letters)] + 1) * Power26(Len(letters) - 1)
         + DigitSum(Tail(letters))

\* a decoding in plain base 26, A being the digit 0
RECURSIVE column_letter_to_index_PlainBase26(_)
column_letter_to_index_PlainBase26(letters) ==
    IF letters = <<>> THEN 0
    ELSE letter_value[Upper(Head(letters))] * Power26(Len(letters) - 1)
         + column_letter_to_index_PlainBase26(Tail(letters))

\* letters case-folded to upper case, value = the digit sum - 1
column_letter_to_index(letters) == DigitSum(MapChars(letters, "upper")) - 1

----------------------------------------------------------------------------
(* ReportGenerator.validate_inputs *)

allowed_excel_extensions == { <<".", "x", "l", "s", "x">>, <<".", "x", "l", "s">> }

allowed_template_extensions == { <<".", "d", "o", "c", "x">> }

allowed_mapping_extensions == { <<".", "j", "s", "o", "n">> }

\* if cond: errors.append(entry)
AppendIf(cond, entry) == IF cond THEN <<entry>> ELSE <<>>

\* json.load raises something the except clause of line 224 does not catch:
\* f.read() raises UnicodeDecodeError, which is not a JSONDecodeError
MappingReadRaises(mapping) == mapping.exists /\ mapping.content = "undecodable"

\* lines 216-225: the errors of the mapping's JSON, looked at only if the
\* file exists
MappingJsonErrors(mapping) ==
    IF ~mapping.exists THEN <<>>
    ELSE CASE mapping.content = "not_object" ->
                <<Entry("Mapping file must contain a JSON object", <<>>)>>
           [] mapping.content = "empty_object" ->
                <<Entry("Mapping file is empty", <<>>)>>
           [] mapping.content = "malformed" ->
                <<Entry("Invalid JSON in mapping file: ", <<>>)>>
           [] OTHER -> <<>>

\* validate_inputs(excel_path, template_path, mapping_path): the list it
\* returns, or raised when an exception leaves it
validate_inputs(excel, template, mapping) ==
    LET excel_ext    == MapChars(excel.suffix, "lower")
        template_ext == MapChars(template.suffix, "lower")
        mapping_ext  == MapChars(mapping.suffix, "lower")
        errors ==
            AppendIf(~excel.exists, Entry("Excel file not found: ", <<"excel_path">>))
            \o AppendIf(~template.exists, Entry("Template file not found: ", <<"template_path">>))
            \o AppendIf(~mapping.exists, Entry("Mapping file not found: ", <<"mapping_path">>))
            \o AppendIf(excel_ext \notin allowed_excel_extensions,
                        Entry("Invalid Excel file extension: ", excel_ext))
            \o AppendIf(template_ext \notin allowed_template_extensions,
                        Entry("Invalid template file extension: ", template_ext))
            \o AppendIf(mapping_ext \notin allowed_mapping_extensions,
                        Entry("Invalid mapping file extension: ", mapping_ext))
            \o MappingJsonErrors(mapping)
    IN  IF MappingReadRaises(mapping)
        THEN [raised |-> TRUE, errors |-> <<>>]
        ELSE [raised |-> FALSE, errors |-> errors]

----------------------------------------------------------------------------
(* PDFConverter *)

EmptyBatch == [success_count |-> 0, failure_count |-> 0, errors |-> <<>>]

\* a reconciliation that takes the return of the call as proof of success
CheckCreated_TrustsCall(docs, files, acc) ==
    [acc EXCEPT !.success_count = @ + Len(docs)]

\* for docx_path in docx_files: expected_pdf.exists() ? success : failure
RECURSIVE CheckCreated(_, _, _)
CheckCreated(docs, files, acc) ==
    IF docs = <<>> THEN acc
    ELSE LET d == Head(docs)
             next == IF ExpectedPdf(d) \in files
                     THEN [acc EXCEPT !.success_count = @ + 1]
                     ELSE [acc EXCEPT !.failure_count = @ + 1,
                                      !.errors = Append(@, Entry("Failed to convert: ", d.name))]
         IN  CheckCreated(Tail(docs), files, next)

\* a batch conversion that believes a non-zero return code
convert_batch_single_call_TrustsExit(docs, files, outcome, code, raising) ==
    IF docs = <<>>
    THEN [result |-> EmptyBatch, exists_calls |-> 0]
    ELSE IF outcome = "returned" /\ code = 0
         THEN [result |-> CheckCreated(docs, files, EmptyBatch),
               exists_calls |-> Len(docs)]
         ELSE [result |-> [EmptyBatch EXCEPT
                              !.errors = <<Entry("Batch conversion error: ", <<"exit">>)>>,
                              !.failure_count = Len(docs)],
               exists_calls |-> 0]

\* a batch conversion that still looks for the outputs after a timeout
convert_batch_single_call_ReconcilesOnTimeout(docs, files, outcome, code, raising) ==
    IF docs = <<>>
    THEN [result |-> EmptyBatch, exists_calls |-> 0]
    ELSE IF outcome \in {"returned", "timeout"}
         THEN [result |-> CheckCreated(docs, files,
                             IF outcome = "timeout"
                             THEN [EmptyBatch EXCEPT !.errors =
                                      <<Entry("Batch conversion timed out", <<>>)>>]
                             ELSE EmptyBatch),
               exists_calls |-> Len(docs)]
         ELSE [result |-> [EmptyBatch EXCEPT
                              !.errors = <<Entry("Batch conversion error: ", <<"OSError">>)>>,
                              !.failure_count = Len(docs)],
               exists_calls |-> 0]

\* convert_batch_single_call(docx_files, output_dir).  files is the content of
\* the output directory when subprocess.run ends, outcome how it ends
\* ("returned", "timeout" = TimeoutExpired, "error" = any other exception),
\* code the return code of the process, which the method never reads,
\* raising the position of the exists() call that raises (0 when every call
\* answers): the loop of lines 222-229 has then counted the documents before
\* it, and the handler of lines 234-236 sets failure_count and leaves
\* success_count as it is.
\* Yields the returned dict and the number of exists() calls made.
convert_batch_single_call(docs, files, outcome, code, raising) ==
    IF docs = <<>>
    THEN [result |-> EmptyBatch, exists_calls |-> 0]
    ELSE CASE outcome = "returned" /\ raising \notin 1..Len(docs) ->
                [result |-> CheckCreated(docs, files, EmptyBatch),
                 exists_calls |-> Len(docs)]
           [] outcome = "returned" /\ raising \in 1..Len(docs) ->
                LET checked == CheckCreated(SubSeq(docs, 1, raising - 1), files, EmptyBatch)
                IN  [result |-> [checked EXCEPT
                                    !.errors = Append(@, Entry("Batch conversion error: ",
                                                               <<"PermissionError">>)),
                                    !.failure_count = Len(docs)],
                     exists_calls |-> raising]
           [] outcome = "timeout" ->
                [result |-> [EmptyBatch EXCEPT
                                !.errors = <<Entry("Batch conversion timed out", <<>>)>>,
                                !.failure_count = Len(docs)],
                 exists_calls |-> 0]
           [] OTHER ->
                [result |-> [EmptyBatch EXCEPT
                                !.errors = <<Entry("Batch conversion error: ", <<"OSError">>)>>,
                                !.failure_count = Len(docs)],
                 exists_calls |-> 0]

\* a convert that looks for the output whichever way the call ended
convert_ChecksAfterFailure(docx_path, inputExists, files, outcome, code) ==
    IF inputExists /\ ExpectedPdf(docx_path) \in files
    THEN [success |-> TRUE, message |-> "pdf_path"]
    ELSE [success |-> FALSE, message |-> "Conversion failed: "]

\* convert(docx_path, output_dir): (success, pdf_path or error_message)
convert(docx_path, inputExists, files, outcome, code) ==
    IF ~inputExists
    THEN [success |-> FALSE, message |-> "File not found: "]
    ELSE CASE outcome = "returned" ->
                IF ExpectedPdf(docx_path) \in files
                THEN [success |-> TRUE, message |-> "pdf_path"]
                ELSE [success |-> FALSE, message |-> "Conversion failed: "]
           [] outcome = "timeout" ->
                [success |-> FALSE, message |-> "Conversion timed out after "]
           [] OTHER ->
                [success |-> FALSE, message |-> "Conversion error: "]

\* an availability check that is content with the query having run
is_available_IgnoresReturnCode(path_found, query) ==
    path_found /\ query # "raises"

\* is_available(): the version query must return with code 0
is_available(path_found, query) ==
    IF ~path_found THEN FALSE
    ELSE IF query = "raises" THEN FALSE
    ELSE query = "0"

\* how `soffice --version` can end: its return code, or an exception
VersionQueries == {"0", "1", "raises"}

\* the PDFs an external run over docs can leave in the output directory
Producible(docs) == SUBSET { ExpectedPdf(docs[k]) : k \in 1..Len(docs) }

ProcessOutcomes == {"returned", "timeout", "error"}


----------------------------------------------------------------------------
(* ReportGenerator.generate *)

NewResults ==
    [success |-> FALSE, total_students |-> 0, generated |-> 0, failed |-> 0,
     errors |-> <<>>, output_dir |-> "output_dir"]

NoBatch == [success_count |-> -1, failure_count |-> -1, errors |-> <<>>]

IdleConvert ==
    [pc |-> "idle", doc |-> DocxPath(<<>>), inputExists |-> FALSE,
     invoked |-> FALSE, outcome |-> "none", exit |-> -1,
     result |-> [success |-> FALSE, message |-> "none"]]

\* statements of generate inside the inner try ... finally (lines 111-166)
InnerTry == {"get_rows", "loop", "converting", "set_success"}

\* a generate without its outer handler: the exception leaves generate
OuterHandler_Missing == "escaped"

\* where `except Exception` of the outer try (line 168) takes control
OuterHandler == "except"

\* where control goes when the statement at position p raises
HandlerOf(p) == IF p \in InnerTry THEN "finally" ELSE OuterHandler

\* a generate that goes on after a failed validation
AbortOnValidation_Never(ve) == FALSE

\* line 87: `if validation_errors:`
AbortOnValidation(ve) == ve # <<>>

\* one external call per document, as convert_batch makes
SubprocessRuns_PerDocument(docs) == Len(docs)

\* lines 214-220: the subprocess.run calls convert_batch_single_call makes
\* for a non-empty list: one, with every file on its command line
SubprocessRuns(docs) == 1

\* a success flag computed from the generated count
SuccessFlag_FromGenerated(r) == r.generated > 0

\* results["success"] = results["failed"] == 0
SuccessFlag(r) == r.failed = 0

\* the generate runs of one process, one per /generate request
RunIds == {1, 2}

\* main.py 150: OUTPUT_DIR / session_id / f"{class_name}_report_cards", a
\* directory of its own for each run
OutputDir(r) == IF r = 1 THEN "output_1" ELSE "output_2"

\* the names mkdtemp can make up
TempNames == {"reportgen_a", "reportgen_b"}

\* a temporary directory with a fixed name, made if it is not there
mkdtemp_FixedName(dirs) == {"reportgen_a"}

\* line 107, tempfile.mkdtemp(prefix="reportgen_"): the names it can return
\* when the directories dirs exist; it creates a directory that was not there
mkdtemp(dirs) == TempNames \ dirs

\* the names on the sheets of the two runs: both classes have the same ones
PairNames == << <<"A">>, <<"A", ":">>, <<"n", "a">> >>

\* the sheet of a run holds the first n of them
PairRowLists ==
    { [k \in 1..n |-> [name       |-> StrCell(PairNames[k]),
                       percentage |-> FloatCell(<<"8", "7", ".", "5">>)]] :
         n \in 0..MaxPairStudents }

\* a run about to execute line 107
NewRun ==
    [pc |-> "mkdtemp", temp_dir |-> "none", student_rows |-> <<>>, i |-> 0,
     docx_files |-> <<>>, results |-> NewResults]

EmptyFs == [dirs |-> {}, files |-> {}]

IdlePair ==
    [runs |-> [r \in RunIds |-> NewRun],
     fs   |-> EmptyFs,
     solo |-> [r \in RunIds |-> [run |-> NewRun, fs |-> EmptyFs]]]

Init ==
    /\ op \in {"generate", "convert"} \cup CalledFunctions
    /\ pc = IF op = "generate" THEN "start" ELSE "idle"
    /\ exc = "none"
    /\ results = NewResults
    /\ validation_errors = <<>>
    /\ temp_dir = "none"
    /\ tempFiles = {}
    /\ outputFiles \in StaleOutputs
    /\ student_rows = <<>>
    /\ i = 0
    /\ docx_files = <<>>
    /\ has_callback \in (IF op = "generate" THEN BOOLEAN ELSE {FALSE})
    /\ progress = <<>>
    /\ extracted = 0
    /\ fillAttempts = <<>>
    /\ convInvocations = 0
    /\ versionQueries = 0
    /\ libreoffice = "unknown"
    /\ existChecks = 0
    /\ procOutcome = "none"
    /\ exitCode = -1
    /\ batch_results = NoBatch
    /\ elapsed = 0
    /\ produced = {}
    /\ cv = IF op = "convert" THEN [IdleConvert EXCEPT !.pc = "call"] ELSE IdleConvert
    /\ call = [fn |-> op, done |-> FALSE]
    /\ pair = IdlePair

\* the statement at pc raises msg
Raise(msg) ==
    /\ exc' = msg
    /\ pc' = HandlerOf(pc)

\* lines 77-83: DataProcessor(...) reads the workbook and the mapping
ConstructDataProcessor ==
    /\ pc = "start"
    /\ \E readable \in BOOLEAN :
          IF readable THEN pc' = "validate" /\ exc' = exc
          ELSE Raise("Error loading Excel file")
    /\ UNCHANGED <<op, libreoffice, results, validation_errors, temp_dir, tempFiles,
                   outputFiles, student_rows, i, docx_files, has_callback,
                   progress, extracted, fillAttempts, convInvocations,
                   versionQueries, existChecks, procOutcome, exitCode,
                   batch_results, elapsed, produced, cv, call, pair>>

\* lines 86-89: validate, and return the validation errors if there are any
Validate ==
    /\ pc = "validate"
    /\ \E ve \in ValidationOutcomes :
          /\ validation_errors' = ve
          /\ IF AbortOnValidation(ve)
             THEN /\ results' = [results EXCEPT !.errors = ve]
                  /\ pc' = "done"
             ELSE /\ results' = results
                  /\ pc' = "template_filler"
    /\ UNCHANGED <<op, libreoffice, exc, temp_dir, tempFiles, outputFiles, student_rows, i,
                   docx_files, has_callback, progress, extracted, fillAttempts,
                   convInvocations, versionQueries, existChecks, procOutcome,
                   exitCode, batch_results, elapsed, produced, cv, call, pair>>

\* lines 91-95: TemplateFiller(...) loads the template
ConstructTemplateFiller ==
    /\ pc = "template_filler"
    /\ \E loaded \in BOOLEAN :
          IF loaded THEN pc' = "pdf_converter" /\ exc' = exc
          ELSE Raise("Template not found")
    /\ UNCHANGED <<op, libreoffice, results, validation_errors, temp_dir, tempFiles,
                   outputFiles, student_rows, i, docx_files, has_callback,
                   progress, extracted, fillAttempts, convInvocations,
                   versionQueries, existChecks, procOutcome, exitCode,
                   batch_results, elapsed, produced, cv, call, pair>>

\* lines 97-99: PDFConverter(...) raises RuntimeError when no executable is
\* found (pdf_converter.py 34-39)
ConstructPDFConverter ==
    /\ pc = "pdf_converter"
    /\ \E found \in BOOLEAN :
          IF found
          THEN pc' = "is_available" /\ exc' = exc /\ libreoffice' = libreoffice
          ELSE /\ Raise("LibreOffice not found. Please install LibreOffice or provide the path.")
               /\ libreoffice' = "missing"
    /\ UNCHANGED <<op, results, validation_errors, temp_dir, tempFiles,
                   outputFiles, student_rows, i, docx_files, has_callback,
                   progress, extracted, fillAttempts, convInvocations,
                   versionQueries, existChecks, procOutcome, exitCode,
                   batch_results, elapsed, produced, cv, call, pair>>

\* lines 102-104: is_available() runs the version query; generate returns
\* early when it is false
CheckAvailable ==
    /\ pc = "is_available"
    /\ \E query \in VersionQueries :
          /\ versionQueries' = versionQueries + 1
          /\ libreoffice' = IF query = "0" THEN "ok" ELSE "broken"
          /\ IF is_available(TRUE, query)
             THEN /\ pc' = "mkdtemp"
                  /\ results' = results
             ELSE /\ pc' = "done"
                  /\ results' = [results EXCEPT !.errors =
                        Append(@, Entry("LibreOffice not found or not working", <<>>))]
    /\ UNCHANGED <<op, exc, validation_errors, temp_dir, tempFiles, outputFiles,
                   student_rows, i, docx_files, has_callback, progress,
                   extracted, fillAttempts, convInvocations, existChecks,
                   procOutcome, exitCode, batch_results, elapsed, produced, cv, call, pair>>

\* line 107: temp_dir = Path(tempfile.mkdtemp(prefix="reportgen_"))
Mkdtemp ==
    /\ pc = "mkdtemp"
    /\ \E created \in BOOLEAN :
          IF created
          THEN temp_dir' = "exists" /\ pc' = "mkdir_output" /\ exc' = exc
          ELSE temp_dir' = temp_dir /\ Raise("mkdtemp failed")
    /\ UNCHANGED <<op, libreoffice, results, validation_errors, tempFiles, outputFiles,
                   student_rows, i, docx_files, has_callback, progress,
                   extracted, fillAttempts, convInvocations, versionQueries,
                   existChecks, procOutcome, exitCode, batch_results, elapsed, produced, cv, call, pair>>

\* lines 108-109: output_path.mkdir(parents=True, exist_ok=True)
MkdirOutput ==
    /\ pc = "mkdir_output"
    /\ \E created \in BOOLEAN :
          IF created THEN pc' = "get_rows" /\ exc' = exc
          ELSE Raise("cannot create output directory")
    /\ UNCHANGED <<op, libreoffice, results, validation_errors, temp_dir, tempFiles,
                   outputFiles, student_rows, i, docx_files, has_callback,
                   progress, extracted, fillAttempts, convInvocations,
                   versionQueries, existChecks, procOutcome, exitCode,
                   batch_results, elapsed, produced, cv, call, pair>>

\* lines 113-119: read the rows; return when there are none
GetStudentRows ==
    /\ pc = "get_rows"
    /\ \E rows \in RowLists :
          /\ student_rows' = rows
          /\ IF Len(rows) = 0
             THEN /\ results' = [results EXCEPT
                        !.total_students = 0,
                        !.errors = Append(@, Entry("No student data found in Excel file", <<>>))]
                  /\ pc' = "finally"
             ELSE /\ results' = [results EXCEPT !.total_students = Len(rows)]
                  /\ pc' = "loop"
    /\ UNCHANGED <<op, libreoffice, exc, validation_errors, temp_dir, tempFiles, outputFiles,
                   i, docx_files, has_callback, progress, extracted,
                   fillAttempts, convInvocations, versionQueries, existChecks,
                   procOutcome, exitCode, batch_results, elapsed, produced, cv, call, pair>>


\* a callback that is handed the loop index i instead of current
FillProgress_ZeroBased(current, total, student_name) ==
    <<current - 1, total, student_name, "Filling template...">>

\* line 134: the arguments of the callback before a student's fill
FillProgress(current, total, student_name) ==
    <<current, total, student_name, "Filling template...">>

\* lines 123-144: one pass of the fill loop, for row i + 1
FillStudent ==
    /\ pc = "loop"
    /\ i < Len(student_rows)
    /\ LET current      == i + 1
           total        == Len(student_rows)
           student_data == ExtractedRows[student_rows[current]]
       IN
       /\ extracted' = extracted + 1
       /\ IF student_data = None
          THEN \* line 130: None has no attribute "get"
               /\ Raise("'NoneType' object has no attribute 'get'")
               /\ UNCHANGED <<results, tempFiles, i, docx_files, progress, fillAttempts>>
          ELSE LET student_name == Str(student_data.name)
                   safe_name    == sanitize_filename(student_name)
                   docx_path    == DocxPath(safe_name)
               IN
               /\ progress' = IF has_callback
                              THEN Append(progress, FillProgress(current, total, student_name))
                              ELSE progress
               /\ \E callback_raises \in (IF has_callback THEN BOOLEAN ELSE {FALSE}) :
                     IF callback_raises
                     THEN /\ Raise("progress callback failed")
                          /\ UNCHANGED <<results, tempFiles, i, docx_files, fillAttempts>>
                     ELSE \E filled \in BOOLEAN :
                             /\ fillAttempts' = Append(fillAttempts, <<current, filled>>)
                             /\ IF filled
                                THEN /\ tempFiles' = tempFiles \cup {docx_path.name}
                                     /\ docx_files' = Append(docx_files, docx_path)
                                     /\ results' = results
                                ELSE /\ tempFiles' = tempFiles
                                     /\ docx_files' = docx_files
                                     /\ results' = [results EXCEPT
                                           !.failed = @ + 1,
                                           !.errors = Append(@, Entry("template render failed", student_name))]
                             /\ i' = i + 1
                             /\ pc' = pc
                             /\ exc' = exc
    /\ UNCHANGED <<op, libreoffice, validation_errors, temp_dir, outputFiles, student_rows,
                   has_callback, convInvocations, versionQueries, existChecks,
                   procOutcome, exitCode, batch_results, elapsed, produced, cv, call, pair>>

\* line 149: the arguments of the callback before the batch conversion
BatchProgress(total) ==
    <<total, total, <<"All students">>, "Converting to PDF (batch)...">>

\* a subprocess.run without timeout=: no wait the model follows reaches it
BatchTimeout_Unbounded(docs) == MaxWait + 1

\* pdf_converter.py 218: timeout=self.timeout_seconds * len(docx_files), in
\* units of timeout_seconds
BatchTimeout(docs) == Len(docs)

\* a merge that stores the batch's failures instead of adding them
MergeBatch_OverwritesFailed(r, b) ==
    [r EXCEPT !.generated = b.success_count,
              !.failed = b.failure_count,
              !.errors = @ \o b.errors]

\* results after lines 154-157 have merged the batch result b
MergeBatch(r, b) ==
    [r EXCEPT !.generated = b.success_count,
              !.failed = @ + b.failure_count,
              !.errors = @ \o b.errors]

\* a loop that leaves the last row out
LoopDone_OneShort(done, rows) == done >= Len(rows) - 1

\* line 123: the for loop over student_rows has gone through every row
LoopDone(done, rows) == done = Len(rows)

\* lines 147-152: after the last row, the progress callback and the start
\* of the batched conversion (subprocess.run at pdf_converter.py 213)
ConvertPhase ==
    /\ pc = "loop"
    /\ LoopDone(i, student_rows)
    /\ IF docx_files = <<>>
       THEN /\ pc' = "set_success"
            /\ UNCHANGED <<exc, progress, convInvocations>>
       ELSE /\ progress' = IF has_callback
                           THEN Append(progress, BatchProgress(Len(student_rows)))
                           ELSE progress
            /\ \E callback_raises \in (IF has_callback THEN BOOLEAN ELSE {FALSE}) :
                  IF callback_raises
                  THEN /\ Raise("progress callback failed")
                       /\ UNCHANGED convInvocations
                  ELSE /\ convInvocations' = convInvocations + SubprocessRuns(docx_files)
                       /\ pc' = "converting"
                       /\ exc' = exc
    /\ UNCHANGED <<op, libreoffice, results, validation_errors, temp_dir, tempFiles,
                   outputFiles, student_rows, i, docx_files, has_callback, extracted,
                   fillAttempts, versionQueries, existChecks, procOutcome, exitCode,
                   batch_results, elapsed, produced, cv, call, pair>>

\* pdf_converter.py 213-219: subprocess.run is waiting for the external
\* process and its timeout has not run out
Tick ==
    /\ pc = "converting"
    /\ elapsed < MaxWait
    /\ elapsed # BatchTimeout(docx_files)
    /\ elapsed' = elapsed + 1
    /\ UNCHANGED <<op, pc, exc, libreoffice, results, validation_errors, temp_dir,
                   tempFiles, outputFiles, student_rows, i, docx_files, has_callback,
                   progress, extracted, fillAttempts, convInvocations, versionQueries,
                   existChecks, procOutcome, exitCode, batch_results, produced, cv, call, pair>>

\* pdf_converter.py 221-238 and report_generator.py 154-157: subprocess.run
\* has ended as outcome, the external process having written the PDFs
\* written; the outputs are reconciled, every exists() answering, and the
\* batch result merged
EndConversion(outcome, code, written) ==
    LET files == outputFiles \cup written
        batch == convert_batch_single_call(docx_files, files, outcome, code, 0)
    IN  /\ outputFiles' = files
        /\ produced' = written
        /\ procOutcome' = outcome
        /\ exitCode' = code
        /\ existChecks' = existChecks + batch.exists_calls
        /\ batch_results' = batch.result
        /\ results' = MergeBatch(results, batch.result)
        /\ elapsed' = 0
        /\ pc' = "set_success"
        /\ UNCHANGED <<op, exc, libreoffice, validation_errors, temp_dir, tempFiles,
                       student_rows, i, docx_files, has_callback, progress, extracted,
                       fillAttempts, convInvocations, versionQueries, cv, call, pair>>

\* the external process exits before the timeout, or subprocess.run raises
\* something other than TimeoutExpired
ProcessExits ==
    /\ pc = "converting"
    /\ elapsed # BatchTimeout(docx_files)
    /\ \E outcome \in ProcessOutcomes \ {"timeout"} :
       \E code \in (IF outcome = "returned" THEN ExitCodes ELSE {-1}) :
       \E written \in (IF outcome = "error" THEN {{}} ELSE Producible(docx_files)) :
          EndConversion(outcome, code, written)

\* subprocess.run raises TimeoutExpired: timeout= has run out
TimeoutExpired ==
    /\ pc = "converting"
    /\ elapsed = BatchTimeout(docx_files)
    /\ \E written \in Producible(docx_files) :
          EndConversion("timeout", -1, written)

\* line 159
SetSuccess ==
    /\ pc = "set_success"
    /\ results' = [results EXCEPT !.success = SuccessFlag(results)]
    /\ pc' = "finally"
    /\ UNCHANGED <<op, libreoffice, exc, validation_errors, temp_dir, tempFiles, outputFiles,
                   student_rows, i, docx_files, has_callback, progress,
                   extracted, fillAttempts, convInvocations, versionQueries,
                   existChecks, procOutcome, exitCode, batch_results, elapsed, produced, cv, call, pair>>

\* lines 161-166: shutil.rmtree(temp_dir), whose own failure is swallowed;
\* then the return or the exception in flight goes on
Finally ==
    /\ pc = "finally"
    /\ \E removed \in BOOLEAN :
          IF removed
          THEN temp_dir' = "removed" /\ tempFiles' = {}
          ELSE temp_dir' = temp_dir /\ tempFiles' = tempFiles
    /\ pc' = IF exc = "none" THEN "done" ELSE OuterHandler
    /\ UNCHANGED <<op, libreoffice, exc, results, validation_errors, outputFiles,
                   student_rows, i, docx_files, has_callback, progress,
                   extracted, fillAttempts, convInvocations, versionQueries,
                   existChecks, procOutcome, exitCode, batch_results, elapsed, produced, cv, call, pair>>

\* lines 168-171: the outer handler records the exception and generate returns
OuterExcept ==
    /\ pc = "except"
    /\ results' = [results EXCEPT !.errors = Append(@, Entry("Unexpected error: ", <<exc>>))]
    /\ pc' = "done"
    /\ UNCHANGED <<op, libreoffice, exc, validation_errors, temp_dir, tempFiles, outputFiles,
                   student_rows, i, docx_files, has_callback, progress,
                   extracted, fillAttempts, convInvocations, versionQueries,
                   existChecks, procOutcome, exitCode, batch_results, elapsed, produced, cv, call, pair>>

----------------------------------------------------------------------------
(* A caller of PDFConverter.convert (pdf_converter.py 88-143) *)

ConvertCall ==
    /\ op = "convert"
    /\ cv.pc = "call"
    /\ \E doc \in ConvertInputs :
       \E inputExists \in BOOLEAN :
       \E outcome \in (IF inputExists THEN ProcessOutcomes ELSE {"none"}) :
       \E code \in (IF outcome = "returned" THEN ExitCodes ELSE {-1}) :
       \E written  \in (IF outcome \in {"returned", "timeout"}
                        THEN Producible(<<doc>>) ELSE {{}}) :
          LET files == outputFiles \cup written
          IN  /\ outputFiles' = files
              /\ produced' = written
              /\ cv' = [pc |-> "returned", doc |-> doc, inputExists |-> inputExists,
                        invoked |-> inputExists, outcome |-> outcome, exit |-> code,
                        result |-> convert(doc, inputExists, files, outcome, code)]
    /\ UNCHANGED <<op, libreoffice, pc, exc, results, validation_errors, temp_dir, tempFiles,
                   student_rows, i, docx_files, has_callback, progress,
                   extracted, fillAttempts, convInvocations, versionQueries,
                   existChecks, procOutcome, exitCode, batch_results, elapsed,
                   call, pair>>

----------------------------------------------------------------------------
(* Callers of the functions checked on their own *)

\* everything but call
runVars == <<op, pc, exc, results, validation_errors, temp_dir, tempFiles,
             outputFiles, student_rows, i, docx_files, has_callback, progress,
             extracted, fillAttempts, convInvocations, versionQueries,
             libreoffice, existChecks, procOutcome, exitCode, batch_results,
             elapsed, produced, cv>>

\* process_student_data(row, class_name) for one row of the frame
ExtractCall ==
    /\ op = "process_student_data"
    /\ ~call.done
    /\ \E keys \in MappingKeySets :
       \E row \in [keys -> ExtractCells] :
       \E cls \in ClassNames :
          call' = [fn |-> op, done |-> TRUE, row |-> row, cls |-> cls,
                   out |-> process_student_data(row, cls)]
    /\ UNCHANGED <<runVars, pair>>

\* validate_inputs(excel_path, template_path, mapping_path) as main.py 157 calls it
ValidateInputsCall ==
    /\ op = "validate_inputs"
    /\ ~call.done
    /\ \E excel \in ExcelFiles :
       \E template \in TemplateFiles :
       \E mapping \in MappingFiles :
          call' = [fn |-> op, done |-> TRUE, excel |-> excel, template |-> template,
                   mapping |-> mapping,
                   out |-> validate_inputs(excel, template, mapping)]
    /\ UNCHANGED <<runVars, pair>>

\* column_letter_to_index(letters) for one column reference of the mapping
ResolveCall ==
    /\ op = "column_letter_to_index"
    /\ ~call.done
    /\ \E letters \in LetterStrings :
          call' = [fn |-> op, done |-> TRUE, letters |-> letters,
                   out |-> column_letter_to_index(letters)]
    /\ UNCHANGED <<runVars, pair>>

\* sanitize_filename(name) as the tests call it.  The function's file is not
\* among the sources and its description does not fix the order of the two
\* trims, so the call returns what either order gives.
SanitizeCall ==
    /\ op = "sanitize_filename"
    /\ ~call.done
    /\ \E name \in NameInputs :
       \E out \in {sanitize_filename(name), sanitize_filename_DotsFirst(name)} :
          call' = [fn |-> op, done |-> TRUE, name |-> name, out |-> out]
    /\ UNCHANGED <<runVars, pair>>

\* the filled documents a batch can be made of
BatchDocuments == { [dir |-> "temp", name |-> <<"A", ".docx">>],
                    [dir |-> "temp", name |-> <<"B", ".docx">>] }

BatchLists == UNION { [1..n -> BatchDocuments] : n \in 0..MaxStudents }

\* convert_batch_single_call(docx_files, output_dir) on its own: files is what
\* the output directory holds when subprocess.run ends, and when it has
\* returned an exists() call of the loop of lines 222-229 may raise
\* (PermissionError on the output directory)
BatchCall ==
    /\ op = "convert_batch_single_call"
    /\ ~call.done
    /\ \E docs \in BatchLists :
       \E files \in Producible(docs) :
       \E outcome \in ProcessOutcomes :
       \E raising \in (IF outcome = "returned" THEN 0..Len(docs) ELSE {0}) :
          call' = [fn |-> op, done |-> TRUE, docs |-> docs, files |-> files,
                   outcome |-> outcome, raising |-> raising,
                   out |-> convert_batch_single_call(docs, files, outcome, 0, raising).result]
    /\ UNCHANGED <<runVars, pair>>

----------------------------------------------------------------------------
(* Two concurrent generate runs, lines 106-166.  main.py passes no progress *)
(* callback.  A step is a statement that reads or writes the file system    *)
(* together with the statements up to the next such one.  Every step of a   *)
(* run is applied twice with the same choice of the environment: to the run *)
(* and the file system shared with the other run, and to a copy of the run  *)
(* that has a file system to itself.                                        *)

\* the names of the PDFs in the output directory of run r
OutputNames(r, files) == {f.name : f \in {g \in files : g.dir = OutputDir(r)}}

\* What the statement at run.pc makes of run and of the file system fsys; c
\* is what the environment decides at that statement.
StepOf(r, run, fsys, c) ==
    CASE run.pc = "mkdtemp" ->
            \* lines 107-119: the temporary directory, then the rows
            [run |-> IF c.rows = <<>>
                     THEN [run EXCEPT
                             !.temp_dir = c.temp,
                             !.results.errors =
                                 Append(@, Entry("No student data found in Excel file", <<>>)),
                             !.pc = "finally"]
                     ELSE [run EXCEPT !.temp_dir = c.temp,
                                      !.student_rows = c.rows,
                                      !.results.total_students = Len(c.rows),
                                      !.pc = "loop"],
             fs  |-> [fsys EXCEPT !.dirs = @ \cup {c.temp}]]
      [] run.pc = "loop" ->
            \* lines 123-144, one row
            LET current      == run.i + 1
                student_data == ExtractedRows[run.student_rows[current]]
                student_name == Str(student_data.name)
                docx_path    == [DocxPath(sanitize_filename(student_name))
                                    EXCEPT !.dir = run.temp_dir]
                after        == IF current = Len(run.student_rows) THEN "convert" ELSE "loop"
            IN  IF c.filled
                THEN [run |-> [run EXCEPT !.i = current, !.pc = after,
                                          !.docx_files = Append(@, docx_path)],
                      fs  |-> [fsys EXCEPT !.files = @ \cup {docx_path}]]
                ELSE [run |-> [run EXCEPT
                                 !.i = current, !.pc = after,
                                 !.results.failed = @ + 1,
                                 !.results.errors =
                                     Append(@, Entry("template render failed", student_name))],
                      fs  |-> fsys]
      [] run.pc = "convert" ->
            \* lines 147-159; the external process can convert the documents
            \* that are there when it runs
            IF run.docx_files = <<>>
            THEN [run |-> [run EXCEPT !.results.success = SuccessFlag(run.results),
                                      !.pc = "finally"],
                  fs  |-> fsys]
            ELSE LET docs    == run.docx_files
                     there   == {k \in 1..Len(docs) : docs[k] \in fsys.files}
                     written == {[dir |-> OutputDir(r), name |-> ExpectedPdf(docs[k])] :
                                    k \in c.converts \cap there}
                     files   == fsys.files \cup written
                     batch   == convert_batch_single_call(docs, OutputNames(r, files),
                                                          c.outcome, c.code, 0).result
                     merged  == MergeBatch(run.results, batch)
                 IN  [run |-> [run EXCEPT
                                 !.results = [merged EXCEPT !.success = SuccessFlag(merged)],
                                 !.pc = "finally"],
                      fs  |-> [fsys EXCEPT !.files = files]]
      [] run.pc = "finally" ->
            \* lines 161-166 and 171: shutil.rmtree(temp_dir), return results
            [run |-> [run EXCEPT !.pc = "done"],
             fs  |-> [dirs  |-> fsys.dirs \ {run.temp_dir},
                      files |-> {f \in fsys.files : f.dir # run.temp_dir}]]

\* run r takes its next step, the environment deciding c
Take(r, c) ==
    LET shared == StepOf(r, pair.runs[r], pair.fs, c)
        alone  == StepOf(r, pair.solo[r].run, pair.solo[r].fs, c)
    IN  /\ op = "generate_pair"
        /\ pair' = [runs |-> [pair.runs EXCEPT ![r] = shared.run],
                    fs   |-> shared.fs,
                    solo |-> [pair.solo EXCEPT ![r] = alone]]
        /\ UNCHANGED <<runVars, call>>

PairMkdtemp(r) ==
    /\ pair.runs[r].pc = "mkdtemp"
    /\ \E t \in mkdtemp(pair.fs.dirs) :
       \E rows \in PairRowLists : Take(r, [temp |-> t, rows |-> rows])

PairFillStudent(r) ==
    /\ pair.runs[r].pc = "loop"
    /\ \E filled \in BOOLEAN : Take(r, [filled |-> filled])

PairConvertPhase(r) ==
    /\ pair.runs[r].pc = "convert"
    /\ \E outcome \in ProcessOutcomes :
       \E code \in (IF outcome = "returned" THEN ExitCodes ELSE {-1}) :
       \E converts \in (IF outcome = "error" THEN {{}}
                        ELSE SUBSET (1..Len(pair.runs[r].docx_files))) :
          Take(r, [outcome |-> outcome, code |-> code, converts |-> converts])

PairFinally(r) ==
    /\ pair.runs[r].pc = "finally"
    /\ Take(r, [none |-> TRUE])

PairNext ==
    \E r \in RunIds :
        \/ PairMkdtemp(r)
        \/ PairFillStudent(r)
        \/ PairConvertPhase(r)
        \/ PairFinally(r)

----------------------------------------------------------------------------

Next ==
    \/ ConstructDataProcessor
    \/ Validate
    \/ ConstructTemplateFiller
    \/ ConstructPDFConverter
    \/ CheckAvailable
    \/ Mkdtemp
    \/ MkdirOutput
    \/ GetStudentRows
    \/ FillStudent
    \/ ConvertPhase
    \/ Tick
    \/ ProcessExits
    \/ TimeoutExpired
    \/ SetSuccess
    \/ Finally
    \/ OuterExcept
    \/ ConvertCall
    \/ ExtractCall
    \/ ValidateInputsCall
    \/ ResolveCall
    \/ SanitizeCall
    \/ BatchCall

Spec == Init /\ [][Next]_vars

\* The steps generate takes by itself.  The code is sequential and every
\* statement but subprocess.run returns or raises; while subprocess.run waits
\* time passes and its timeout runs out.  Nothing obliges the external
\* process to exit.
RunStep ==
    \/ ConstructDataProcessor
    \/ Validate
    \/ ConstructTemplateFiller
    \/ ConstructPDFConverter
    \/ CheckAvailable
    \/ Mkdtemp
    \/ MkdirOutput
    \/ GetStudentRows
    \/ FillStudent
    \/ ConvertPhase
    \/ Tick
    \/ TimeoutExpired
    \/ SetSuccess
    \/ Finally
    \/ OuterExcept

FairSpec == Spec /\ WF_vars(RunStep)

\* two requests being served at once
PairInit ==
    /\ op = "generate_pair"
    /\ pc = "idle"
    /\ exc = "none"
    /\ results = NewResults
    /\ validation_errors = <<>>
    /\ temp_dir = "none"
    /\ tempFiles = {}
    /\ outputFiles = {}
    /\ student_rows = <<>>
    /\ i = 0
    /\ docx_files = <<>>
    /\ has_callback = FALSE
    /\ progress = <<>>
    /\ extracted = 0
    /\ fillAttempts = <<>>
    /\ convInvocations = 0
    /\ versionQueries = 0
    /\ libreoffice = "unknown"
    /\ existChecks = 0
    /\ procOutcome = "none"
    /\ exitCode = -1
    /\ batch_results = NoBatch
    /\ elapsed = 0
    /\ produced = {}
    /\ cv = IdleConvert
    /\ call = [fn |-> op, done |-> FALSE]
    /\ pair = IdlePair

PairSpec == PairInit /\ [][PairNext]_vars


----------------------------------------------------------------------------
(* Properties *)

\* positions k of docs whose expected PDF is among files
Present(docs, files) == {k \in 1..Len(docs) : ExpectedPdf(docs[k]) \in files}

\* positions of the error entries that name the file `name`
EntriesNaming(errs, name) == {j \in 1..Len(errs) : errs[j].who = name}

C2_ExitStatusNotTrusted ==
    /\ procOutcome = "returned" =>
          LET N    == Len(docx_files)
              here == Present(docx_files, outputFiles)
          IN  /\ \A code \in ExitCodes :
                    batch_results =
                       convert_batch_single_call(docx_files, outputFiles, "returned", code, 0).result
              /\ (exitCode = 0 /\ here # 1..N) => batch_results.failure_count >= 1
              /\ (exitCode # 0 /\ here # {}) => batch_results.success_count >= 1
              /\ (exitCode # 0 /\ here = 1..N) =>
                    batch_results.failure_count = 0 /\ batch_results.success_count = N
    /\ cv.outcome = "returned" =>
          /\ \A code \in ExitCodes :
                cv.result = convert(cv.doc, cv.inputExists, outputFiles, "returned", code)
          /\ cv.result.success <=> ExpectedPdf(cv.doc) \in outputFiles

\* the process exits non-zero, one output is there and one is missing
C2_Witness ==
    /\ procOutcome = "returned"
    /\ exitCode = 1
    /\ Len(docx_files) = 2
    /\ Cardinality(Present(docx_files, outputFiles)) = 1
    /\ batch_results.success_count = 1
    /\ batch_results.failure_count = 1

\* C3 as stated: a returned run has invoked the conversion exactly once if a
\* document was filled and never otherwise.
C3_OnceWheneverADocumentWasFilled ==
    pc = "done" => convInvocations = (IF docx_files # <<>> THEN 1 ELSE 0)

\* C3 amended: the conversion is invoked at most once in a run, so never again
\* after a failure or a timeout, and never when no document was filled; it is
\* invoked exactly once in every run that filled a document and returns
\* without an exception having aborted it.
C3_AtMostOnceAndOnceWhenCompleted ==
    /\ convInvocations <= 1
    /\ docx_files = <<>> => convInvocations = 0
    /\ procOutcome \in {"timeout", "error"} => convInvocations = 1
    /\ (pc = "done" /\ exc = "none" /\ docx_files # <<>>) => convInvocations = 1

\* three documents, the batched call timed out, the run has returned
C3_Witness ==
    /\ pc = "done"
    /\ Len(docx_files) = 3
    /\ procOutcome = "timeout"
    /\ convInvocations = 1

\* C4: when the batched call times out every document is failed, one
\* aggregate timeout entry is recorded and no output is looked for, even
\* when outputs were written before the timeout.
C4_TimeoutFailsWholeBatch ==
    procOutcome = "timeout" =>
        /\ batch_results.failure_count = Len(docx_files)
        /\ batch_results.success_count = 0
        /\ batch_results.errors = <<Entry("Batch conversion timed out", <<>>)>>
        /\ existChecks = 0

\* timeout with the output of one of two documents already written
C4_Witness ==
    /\ procOutcome = "timeout"
    /\ Len(docx_files) = 2
    /\ Cardinality(Present(docx_files, outputFiles)) = 1
    /\ batch_results.failure_count = 2

\* C5: when generate has returned, the temporary directory it created is gone.
C5_TempDirDeleted ==
    pc = "done" => temp_dir # "exists"

ReportFields == {"success", "total_students", "generated", "failed", "errors", "output_dir"}

\* C6: no exception leaves generate; a run that has not returned can take a
\* step, and what it returns is a report with the six fields.
C6_AlwaysReturnsReport ==
    /\ pc # "escaped"
    /\ (op = "generate" /\ pc # "done") => ENABLED Next
    /\ pc = "done" =>
          /\ DOMAIN results = ReportFields
          /\ results.success \in BOOLEAN
          /\ results.total_students \in Nat
          /\ results.generated \in Nat
          /\ results.failed \in Nat
          /\ DOMAIN results.errors = 1..Len(results.errors)
          /\ exc # "none" =>
                results.errors[Len(results.errors)] = Entry("Unexpected error: ", <<exc>>)

\* the progress callback raised, and generate returned a report naming it
C6_Witness ==
    /\ pc = "done"
    /\ exc = "progress callback failed"
    /\ results.errors # <<>>
    /\ results.errors[Len(results.errors)].msg = "Unexpected error: "

ExtractionFails(k) == ExtractedRows[student_rows[k]] = None

FillFailed(k) == \E j \in 1..Len(fillAttempts) : fillAttempts[j] = <<k, FALSE>>

\* C7: a failure of one student's extraction or fill costs one error entry
\* and one failed count, and every student is still processed: all rows are
\* extracted, every row that did not fail is in the batch.
C7_PerStudentFailureIsLocal ==
    (pc = "done" /\ student_rows # <<>> /\ exc # "progress callback failed") =>
        LET N    == Len(student_rows)
            bad  == {k \in 1..N : ExtractionFails(k) \/ FillFailed(k)}
            conv == IF convInvocations > 0 THEN batch_results ELSE EmptyBatch
        IN  /\ extracted = N
            /\ Len(docx_files) = N - Cardinality(bad)
            /\ results.failed = Cardinality(bad) + conv.failure_count
            /\ Len(results.errors) = Cardinality(bad) + Len(conv.errors)

\* C8 as stated: success iff failed = 0, in every returned report.
C8_SuccessIffNoFailure ==
    pc = "done" => (results.success <=> results.failed = 0)

\* the run went through both phases to line 159
Completed == exc = "none" /\ student_rows # <<>>

\* C8 amended: a returned report has success = true iff the run went through
\* both phases and failed = 0; a run that stopped early (validation errors,
\* service unavailable, no rows, unexpected exception) returns success = false
\* whatever its failed count.
C8_SuccessIffCompletedWithoutFailure ==
    pc = "done" => (results.success <=> (Completed /\ results.failed = 0))

\* a completed run with one fill failure and everything else converted
C8_Witness ==
    /\ pc = "done"
    /\ Completed
    /\ Len(student_rows) = 2
    /\ results.generated = 1
    /\ results.failed = 1
    /\ ~results.success

\* C9: when validate returns errors, generate returns a report holding
\* exactly those errors, success = false, generated = failed = 0, and nothing
\* was filled, no temporary directory made, no conversion invoked.
C9_ValidationAbort ==
    validation_errors # <<>> =>
        /\ pc = "done"
        /\ results.errors = validation_errors
        /\ ~results.success
        /\ results.generated = 0
        /\ results.failed = 0
        /\ fillAttempts = <<>>
        /\ extracted = 0
        /\ temp_dir = "none"
        /\ convInvocations = 0
        /\ versionQueries = 0

\* validate returned two errors and generate has returned
C9_Witness ==
    /\ pc = "done"
    /\ Len(validation_errors) = 2
    /\ results.errors = validation_errors

\* C10: when no executable is found or the version query fails, nothing is
\* done per student (no extraction, no fill, no conversion, no temporary
\* directory) and the report is success = false, total_students = generated
\* = failed = 0 with one error entry saying that LibreOffice was not found.
C10_UnavailableAbortsBeforeStudents ==
    libreoffice \in {"missing", "broken"} =>
        /\ pc \in {"except", "done"}
        /\ extracted = 0
        /\ fillAttempts = <<>>
        /\ docx_files = <<>>
        /\ convInvocations = 0
        /\ temp_dir = "none"
        /\ ~results.success
        /\ results.total_students = 0
        /\ results.generated = 0
        /\ results.failed = 0
        /\ pc = "done" =>
              results.errors \in
                 { <<Entry("LibreOffice not found or not working", <<>>)>>,
                   <<Entry("Unexpected error: ",
                           <<"LibreOffice not found. Please install LibreOffice or provide the path.">>)>> }

\* the version query failed and generate has returned its report
C10_Witness ==
    /\ pc = "done"
    /\ libreoffice = "broken"
    /\ versionQueries = 1
    /\ results.errors = <<Entry("LibreOffice not found or not working", <<>>)>>

----------------------------------------------------------------------------
(* End-of-data sentinel *)

\* ReportGenV2.py line 146: student_data['name'] == '---'
IsSentinel(row) ==
    LET student_data == ExtractedRows[row]
    IN  student_data # None /\ student_data.name = StrCell(NullPlaceholder)

SentinelRows == {k \in 1..Len(student_rows) : IsSentinel(student_rows[k])}

\* C11: the first row whose extracted name is the null placeholder ends the
\* data: no fill_template call is made for that row or a later one, and no
\* document of such a row is in the list handed to the conversion.
C11_SentinelEndsData ==
    \A s \in SentinelRows :
        /\ \A a \in 1..Len(fillAttempts) : fillAttempts[a][1] < s
        /\ Len(docx_files) < s

----------------------------------------------------------------------------
(* The extractor on its own *)

Extracted == call.fn = "process_student_data" /\ call.done /\ call.out # None

IsNullText(s) == MapChars(MapChars(s, "upper"), "nospace") \in nan_values

\* the source cell is absent, empty, or NA / NaN / None in any letter case
IsNullCell(cell) ==
    \/ cell.kind \in {"nan", "absent"}
    \/ cell.s = <<>>
    \/ IsNullText(cell.s)

\* C12: in every record the extractor returns no value is empty, and every
\* mapped field whose source cell is absent, empty or NA / NaN / None (any
\* letter case, spaces removed) holds exactly the null placeholder, the
\* percentage and remark fields included.
C12_NullsBecomePlaceholder ==
    Extracted =>
        \A key \in DOMAIN call.out :
            /\ Str(call.out[key]) # <<>>
            /\ (key \in DOMAIN call.row \ {"class"} /\ IsNullCell(call.row[key]))
                  => call.out[key] = StrCell(NullPlaceholder)

\* class_name with every underscore replaced by a space
Spaced(cls) == [k \in 1..Len(cls) |-> IF cls[k] = "_" THEN " " ELSE cls[k]]

\* C13 as stated: the "class" field of every extracted record is the class
\* name with every underscore replaced by a space.
C13_ClassIsClassNameWithSpaces ==
    Extracted => Str(call.out["class"]) = Spaced(call.cls)

\* C13: the "class" field of every extracted record is never read from the
\* row: it is the class name with every underscore replaced by a space, or
\* the null placeholder when that text, upper-cased and without spaces, is
\* NA, NAN or NONE.
C13_ClassIsNormalizedClassName ==
    Extracted =>
        call.out["class"] = StrCell(IF IsNullText(Spaced(call.cls))
                                    THEN NullPlaceholder
                                    ELSE Spaced(call.cls))

C13_Witness ==
    /\ Extracted
    /\ "class" \in DOMAIN call.row
    /\ call.row["class"] = StrCell(<<"A">>)
    /\ call.out["class"] = StrCell(<<"5", " ", "A">>)

----------------------------------------------------------------------------
(* A whole run *)

\* student_data.get("name", ...) of row k
NameOf(k) == Str(ExtractedRows[student_rows[k]].name)

\* the PDF names the filled documents are expected under
ExpectedOutputs == {ExpectedPdf(docx_files[k]) : k \in 1..Len(docx_files)}

\* every fill has succeeded and the external process has returned having
\* written the output of every filled document
AllFilledAllProduced ==
    /\ pc = "done"
    /\ Len(student_rows) >= 1
    /\ Len(fillAttempts) = Len(student_rows)
    /\ \A a \in 1..Len(fillAttempts) : fillAttempts[a][2]
    /\ procOutcome = "returned"
    /\ ExpectedOutputs \subseteq produced

\* C14: when every fill succeeds and the external service produces the output
\* of every filled document, generate over N >= 1 rows returns
\* total_students = N, generated = N, failed = 0, success = true and no
\* errors, and the output directory holds N outputs, one per student, each
\* named by the student's sanitized name.
C14_AllSucceedGivesNOutputs ==
    AllFilledAllProduced =>
        LET N == Len(student_rows)
        IN  /\ results = [success |-> TRUE, total_students |-> N, generated |-> N,
                          failed |-> 0, errors |-> <<>>,
                          output_dir |-> "output_dir"]
            /\ \A k \in 1..N :
                  sanitize_filename(NameOf(k)) \o <<".pdf">> \in outputFiles
            /\ Cardinality({sanitize_filename(NameOf(k)) \o <<".pdf">> : k \in 1..N}) = N

\* C15 as stated, on the runs no exception aborted: N + 1 invocations in
\* every run that processes students.
C15_NPlusOneInvocations ==
    (has_callback /\ pc = "done" /\ Completed) =>
        Len(progress) = Len(student_rows) + 1

\* C15: the callback is invoked once per student in row order with
\* currentIndex = 1..N and total = N, and then once more, for the batch
\* conversion, iff a document was filled: a run that goes through all N
\* students makes N + 1 invocations when it filled a document and N when
\* every fill failed, and an aborted run has made a prefix of them.
C15_OncePerStudentThenBatchIfFilled ==
    LET N      == Len(student_rows)
        n      == Len(progress)
        batch  == n > 0 /\ progress[n][4] = "Converting to PDF (batch)..."
        fills  == IF batch THEN n - 1 ELSE n
    IN  /\ ~has_callback => n = 0
        /\ \A k \in 1..fills :
              progress[k] = <<k, N, NameOf(k), "Filling template...">>
        /\ batch => /\ fills = N
                    /\ progress[n] = <<N, N, <<"All students">>,
                                       "Converting to PDF (batch)...">>
                    /\ docx_files # <<>>
        /\ (has_callback /\ pc = "done" /\ Completed) =>
              /\ fills = N
              /\ batch <=> docx_files # <<>>

\* three students, one fill failed, all four invocations made
C15_Witness ==
    /\ has_callback
    /\ pc = "done"
    /\ Completed
    /\ Len(student_rows) = MaxStudents
    /\ Len(docx_files) = MaxStudents - 1
    /\ Len(progress) = MaxStudents + 1

----------------------------------------------------------------------------
(* validate_inputs on its own *)

Validated == call.fn = "validate_inputs" /\ call.done

\* the number of entries of errs whose message is among msgs
CountOf(errs, msgs) == Cardinality({j \in 1..Len(errs) : errs[j].msg \in msgs})

JsonMessages ==
    { "Mapping file must contain a JSON object", "Mapping file is empty",
      "Invalid JSON in mapping file: " }

\* the violations of the inputs of the call: <<message, present>>
Violations ==
    { <<"Excel file not found: ", ~call.excel.exists>>,
      <<"Template file not found: ", ~call.template.exists>>,
      <<"Mapping file not found: ", ~call.mapping.exists>>,
      <<"Invalid Excel file extension: ",
        MapChars(call.excel.suffix, "lower") \notin allowed_excel_extensions>>,
      <<"Invalid template file extension: ",
        MapChars(call.template.suffix, "lower") \notin allowed_template_extensions>>,
      <<"Invalid mapping file extension: ",
        MapChars(call.mapping.suffix, "lower") \notin allowed_mapping_extensions>> }

\* the mapping file is there and does not decode to a non-empty JSON object
BadMappingJson == call.mapping.exists /\ call.mapping.content # "object"

\* one entry per violation present and no other entry
OneErrorPerViolation ==
    LET errs == call.out.errors
    IN  /\ \A v \in Violations : CountOf(errs, {v[1]}) = IF v[2] THEN 1 ELSE 0
        /\ CountOf(errs, JsonMessages) = IF BadMappingJson THEN 1 ELSE 0
        /\ Len(errs) = Cardinality({v \in Violations : v[2]})
                       + IF BadMappingJson THEN 1 ELSE 0

\* C18: validate_inputs returns a list that holds one error of its own for
\* every violation present - each missing file, each extension outside its
\* whitelist (compared in lower case), a mapping file that is there but does
\* not decode to a non-empty JSON object - and nothing else, so the list is
\* empty iff there is no violation.
C18_EveryViolationReported ==
    Validated => (~call.out.raised /\ OneErrorPerViolation)

----------------------------------------------------------------------------
(* convert on its own *)

\* C19: convert returns success iff the input exists, the external call has
\* returned and stem(input) + ".pdf" is then in the output directory; a
\* missing input (no external call made), a timeout and any other exception
\* of the call each give a failure with its own message, output present or
\* not.
C19_ConvertReconcilesByExistence ==
    cv.pc = "returned" =>
        /\ cv.result.success <=>
              /\ cv.inputExists
              /\ cv.outcome = "returned"
              /\ ExpectedPdf(cv.doc) \in outputFiles
        /\ ~cv.inputExists =>
              ~cv.invoked /\ cv.result.message = "File not found: "
        /\ cv.outcome = "timeout" => cv.result.message = "Conversion timed out after "
        /\ cv.outcome = "error" => cv.result.message = "Conversion error: "
        /\ (cv.outcome = "returned" /\ ~cv.result.success) =>
              cv.result.message = "Conversion failed: "

\* the call timed out with the output already written: a failure
C19_Witness ==
    /\ cv.pc = "returned"
    /\ cv.outcome = "timeout"
    /\ ExpectedPdf(cv.doc) \in outputFiles
    /\ ~cv.result.success

----------------------------------------------------------------------------
(* column_letter_to_index on its own *)

Resolved == call.fn = "column_letter_to_index" /\ call.done

\* the column at zero-based position n of the spreadsheet order A..Z, AA..ZZ
ColumnAt(n) ==
    IF n < 26
    THEN <<UpperLetters[n + 1]>>
    ELSE <<UpperLetters[((n - 26) \div 26) + 1], UpperLetters[((n - 26) % 26) + 1]>>

\* C20: for a column letter string of length 1 or 2 in any letter case the
\* index returned is the zero-based position of the upper-cased string in the
\* order A..Z, AA..ZZ (hence strictly increasing in that order), and it is
\* the index returned for the string in upper case and in lower case.
C20_IndexIsSpreadsheetPosition ==
    Resolved =>
        /\ call.out \in 0..(26 + 26 * 26 - 1)
        /\ ColumnAt(call.out) = MapChars(call.letters, "upper")
        /\ call.out = column_letter_to_index(MapChars(call.letters, "upper"))
        /\ call.out = column_letter_to_index(MapChars(call.letters, "lower"))

\* "aZ" is column AZ, the 52nd
C20_Witness ==
    /\ Resolved
    /\ call.letters = <<"a", "Z">>
    /\ call.out = 51

----------------------------------------------------------------------------
(* Two concurrent runs *)

\* run r has a temporary directory on disk
HasTempDir(r) == pair.runs[r].pc \notin {"mkdtemp", "done"}

\* the files of the shared file system that are run r's: those of its output
\* directory and of its temporary directory
FilesOf(r) ==
    {f \in pair.fs.files :
        \/ f.dir = OutputDir(r)
        \/ HasTempDir(r) /\ f.dir = pair.runs[r].temp_dir}

\* C17: of two generate runs with distinct output directories, under every
\* interleaving of their steps, each has a temporary directory of its own,
\* each finds in it and in its output directory exactly the files it would
\* have had running alone (the cleanup of the other run removes none), and
\* each is in the state, and so returns the report, of the same run alone.
C17_ConcurrentRunsAreIsolated ==
    \A r \in RunIds :
        /\ pair.runs[r] = pair.solo[r].run
        /\ FilesOf(r) = pair.solo[r].fs.files
        /\ \A q \in RunIds \ {r} :
              (HasTempDir(r) /\ HasTempDir(q)) =>
                  pair.runs[r].temp_dir # pair.runs[q].temp_dir

\* both runs have returned, each having generated the documents of the same
\* students from a temporary directory of its own
C17_Witness ==
    /\ \A r \in RunIds :
          /\ pair.runs[r].pc = "done"
          /\ pair.runs[r].results.generated = MaxPairStudents
          /\ pair.runs[r].results.success
    /\ pair.runs[1].student_rows = pair.runs[2].student_rows
    /\ pair.runs[1].temp_dir # pair.runs[2].temp_dir

----------------------------------------------------------------------------
(* Termination *)

\* C16: every generate run returns; a run whose batched call timed out
\* returns a report in which no document is generated and every document of
\* the batch is failed.
C16_EveryRunReturns ==
    (op = "generate") ~>
        (/\ pc = "done"
         /\ procOutcome = "timeout" =>
               /\ results.generated = 0
               /\ results.failed >= Len(docx_files)
               /\ ~results.success)

\* the external process was still running when the whole timeout had passed
C16_Witness ==
    /\ pc = "done"
    /\ procOutcome = "timeout"
    /\ Len(docx_files) = MaxStudents
    /\ results.failed = MaxStudents

----------------------------------------------------------------------------
(* The sanitizer on its own *)

Sanitized == call.fn = "sanitize_filename" /\ call.done

Blank == {" "}

\* characters of the trimmed classes only
OnlyOf(s, chars) == \A k \in 1..Len(s) : s[k] \in chars

\* the longest suffix of s made of whitespace and dots
RECURSIVE Tail_(_)
Tail_(s) ==
    IF s # <<>> /\ s[Len(s)] \in Blank \cup {"."}
    THEN Tail_(SubSeq(s, 1, Len(s) - 1)) \o <<s[Len(s)]>>
    ELSE <<>>

\* name at position k after the replacement of the reserved characters
ReplacedAt(name, k) == IF name[k] \in Reserved THEN "_" ELSE name[k]

\* out is name[off + 1 .. off + Len(out)] with each reserved character
\* replaced by one underscore, what precedes it in name is whitespace and
\* what follows it is whitespace and dots
KeptSlice(name, out, off) ==
    /\ \A k \in 1..Len(out) : out[k] = ReplacedAt(name, off + k)
    /\ OnlyOf(SubSeq(name, 1, off), Blank)
    /\ OnlyOf(SubSeq(name, off + Len(out) + 1, Len(name)), Blank \cup {"."})

----------------------------------------------------------------------------
(* What is handed to the conversion *)

\* the batched subprocess.run of this generate run has been started
ConversionStarted == op = "generate" /\ convInvocations > 0

\* fill_template returned for row k
FillSucceeded(k) == \E a \in 1..Len(fillAttempts) : fillAttempts[a] = <<k, TRUE>>

\* temp_dir / (sanitized name of row k + ".docx")
DocumentOf(k) == [dir |-> "temp", name |-> sanitize_filename(NameOf(k)) \o <<".docx">>]

\* the documents of the rows 1..k whose fill succeeded, in row order
RECURSIVE FilledDocuments(_)
FilledDocuments(k) ==
    IF k = 0 THEN <<>>
    ELSE FilledDocuments(k - 1) \o (IF FillSucceeded(k) THEN <<DocumentOf(k)>> ELSE <<>>)

\* C22: when the batched conversion is started, fill_template has been
\* called once for every row, in row order, and the list handed to the
\* conversion holds the document of every row whose fill succeeded, in row
\* order, and nothing else.
C22_ConvertsExactlyTheFilled ==
    ConversionStarted =>
        /\ Len(fillAttempts) = Len(student_rows)
        /\ \A k \in 1..Len(fillAttempts) : fillAttempts[k][1] = k
        /\ docx_files = FilledDocuments(Len(student_rows))

\* three rows, the fill of one failed, the conversion started with the two
\* documents of the others
C22_Witness ==
    /\ ConversionStarted
    /\ Len(student_rows) = MaxStudents
    /\ ~FillSucceeded(2)
    /\ Len(docx_files) = MaxStudents - 1

----------------------------------------------------------------------------
(* The batched conversion on its own *)

BatchReturned == call.fn = "convert_batch_single_call" /\ call.done

\* C25: whichever way convert_batch_single_call returns for N documents
\* (normally, after a timeout, after any other exception before or during
\* the existence checks), success_count + failure_count = N and both counts
\* lie in 0..N.
C25_CountsSumToN ==
    BatchReturned =>
        LET N == Len(call.docs)
        IN  /\ call.out.success_count + call.out.failure_count = N
            /\ call.out.success_count \in 0..N
            /\ call.out.failure_count \in 0..N

----------------------------------------------------------------------------
(* Count conservation *)

\* the fill_template calls that raised
FillFailures == {a \in 1..Len(fillAttempts) : ~fillAttempts[a][2]}

----------------------------------------------------------------------------
(* Students with the same sanitized name *)

\* the batched call of this run returned, and the output directory holds
\* nothing but what the external process wrote in this run
ReturnedIntoCleanDir ==
    /\ op = "generate" /\ pc = "done" /\ exc = "none"
    /\ procOutcome = "returned"
    /\ outputFiles = produced

\* no two filled documents have the same path
DistinctDocuments ==
    \A j, k \in 1..Len(docx_files) : j # k => docx_files[j] # docx_files[k]

\* C24: the generated count of a report is the number of distinct output
\* files the run produced, and no filled document is overwritten by that of
\* another row, also when two rows have the same sanitized name.
C24_GeneratedIsDistinctOutputs ==
    ReturnedIntoCleanDir =>
        /\ DistinctDocuments
        /\ results.generated = Cardinality(produced)

----------------------------------------------------------------------------
(* Outputs left by an earlier run *)

\* positions of the documents whose PDF the external process wrote in this call
ConvertedNow(docs) == {k \in 1..Len(docs) : ExpectedPdf(docs[k]) \in produced}

\* C26: a document is counted as converted only if the external process of
\* this call wrote its output: after the batched call has returned
\* success_count is the number of documents converted in this call, and a
\* convert that reports success has had its output written in this call.
C26_SuccessOnlyIfProducedNow ==
    /\ (op = "generate" /\ procOutcome = "returned") =>
          batch_results.success_count = Cardinality(ConvertedNow(docx_files))
    /\ (cv.pc = "returned" /\ cv.result.success) =>
          ExpectedPdf(cv.doc) \in produced

=============================================================================
